---- MODULE Spec2Model ----
(***************************************************************************)
(* Model of Arcane::Model (Graphics/Mesh/Model.cpp): LoadModel, the scene  *)
(* walk of ProcessNode and the steps of ProcessMesh (vertex extraction,    *)
(* bone registration, bone-influence assignment, index building, mesh      *)
(* assembly).  The importer's scene is read-only input: the part of it the *)
(* program has not read yet is unconstrained, and is fixed the first time  *)
(* it is read (a mesh shared by several nodes is read again unchanged).    *)
(* Vertex attributes and matrices are opaque tokens; weights are fixed     *)
(* point numbers in units of 1/One.  Material/texture loading and GPU      *)
(* upload (lines 219-232, 237-258) change nothing the walk reads and are   *)
(* left out.                                                               *)
(***************************************************************************)
EXTENDS Integers, Sequences, FiniteSets, TLC

VARIABLES
    status,       \* where the Model is: idle | walking | failed | loaded | aborted | crashed | corrupted
    scene,        \* const aiScene *scene of LoadModel, as far as it has been read
    m_Directory, m_Name,
    m_Meshes, m_BoneDataMap, m_BoneCount, m_GlobalInverseTransform,
    stack,        \* the active ProcessNode calls, outermost first
    pc,           \* position inside ProcessNode/ProcessMesh: node | bones | weights
    positions, uvs, normals, tangents, bitangents, boneWeights,
    boneIndex, boneID, weightIndex, vertexID, currentWeight

modelVars == <<m_Directory, m_Name, m_Meshes, m_BoneDataMap, m_BoneCount,
               m_GlobalInverseTransform>>
attrVars  == <<positions, uvs, normals, tangents, bitangents>>
boneVars  == <<boneWeights, boneIndex, boneID, weightIndex, vertexID, currentWeight>>
vars == <<status, scene, modelVars, stack, pc, attrVars, boneVars>>

----------------------------------------------------------------------------
(* Sizes.                                                                  *)

\* Slots per vertex (VertexBoneData); declared with VertexBoneData, outside Model.cpp.
MaxBonesPerVertex == 4
\* 1.0f, "Maximum weight a bone can have on a vert": weights are counted in halves.
One == 2
\* Word width standing for the 32 bits of unsigned int / int.
IntBits == 3
\* Scene sizes.
MaxVerts == 2
MaxNodes == 3
MaxRefs == 3
NumMeshes == 2
WalkFaces == 1
\* Bone data of the scenes of the walk (Spec).
WalkBones == 2
WalkWeights == 1
\* Bone data of the single-mesh scenes of the bone loop (BoneSpec).
LoopWeights == 5
LoopPerBone == 2
LoopFaces == 1

SeqsUpTo(S, n) == UNION {[1..k -> S] : k \in 0..n}
Min2(a, b) == IF a < b THEN a ELSE b
RECURSIVE SumSeq(_)
SumSeq(s) == IF s = <<>> THEN 0 ELSE Head(s) + SumSeq(Tail(s))
RECURSIVE Pow2(_)
Pow2(n) == IF n = 0 THEN 1 ELSE 2 * Pow2(n - 1)

Weights == 0..One

\* (int) of an unsigned word: two's complement.
ToInt(u) == IF u >= Pow2(IntBits - 1) THEN u - Pow2(IntBits) ELSE u

----------------------------------------------------------------------------
(* Strings: std::string::find_last_of and substr.                          *)

NPOS == -1
FindLastOf(s, chars) ==
    LET hits == {k \in 1..Len(s) : s[k] \in chars}
    IN  IF hits = {} THEN NPOS ELSE (CHOOSE k \in hits : \A h \in hits : h <= k) - 1
\* substr(pos, n) with n = npos meaning "to the end"
Substr(s, pos, n) ==
    LET last == IF n = NPOS THEN Len(s) ELSE Min2(Len(s), pos + n)
    IN  SubSeq(s, pos + 1, last)
\* path.substr(0, path.find_last_of('/'))
DirectoryOf(path) == Substr(path, 0, FindLastOf(path, {"/"}))
\* path.substr(path.find_last_of("/\\") + 1): npos + 1 wraps to 0
NameOf(path) ==
    LET k == FindLastOf(path, {"/", "\\"})
    IN  Substr(path, IF k = NPOS THEN 0 ELSE k + 1, NPOS)

Paths == {<<"d", "/", "e", "\\", "m">>}

----------------------------------------------------------------------------
(* The importer's scene: aiNode trees and aiMesh records.                  *)

\* aiNode: the node's mesh indices and its children, in the scene's order.
MeshLists == SeqsUpTo(0..(NumMeshes - 1), MaxRefs)
RECURSIVE TreesN(_), ForestsN(_)
TreesN(n) == {[mMeshes |-> ms, mChildren |-> f] : ms \in MeshLists, f \in ForestsN(n - 1)}
ForestsN(n) ==
    IF n = 0 THEN {<<>>}
    ELSE UNION {{<<t>> \o f : t \in TreesN(k), f \in ForestsN(n - k)} : k \in 1..n}

RECURSIVE PreOrder(_), PreOrderAll(_)
\* The mesh indices in the order ProcessNode reaches them.
PreOrder(node) == node.mMeshes \o PreOrderAll(node.mChildren)
PreOrderAll(f) == IF f = <<>> THEN <<>> ELSE PreOrder(Head(f)) \o PreOrderAll(Tail(f))

\* Scene meshes are only told apart by their index: the first one a walk reaches is
\* taken to be mesh 0.
Trees == {t \in UNION {TreesN(n) : n \in 1..MaxNodes} :
            /\ Len(PreOrder(t)) <= MaxRefs
            /\ PreOrder(t) # <<>> => PreOrder(t)[1] = 0}
SingleMeshTree == [mMeshes |-> <<0>>, mChildren |-> <<>>]
\* Stands in the mRootNode field of a scene without a root (hasRoot = FALSE).
NoNode == [mMeshes |-> <<>>, mChildren |-> <<>>]

\* An aiMesh nothing has been read of yet.
Unread == [read |-> FALSE, mNumVertices |-> 0, hasUV |-> FALSE, mNumBones |-> 0,
           mBones |-> <<>>, facesRead |-> FALSE, mFaces |-> <<>>]
UnreadMeshes == [m \in 0..(NumMeshes - 1) |-> Unread]

\* What Assimp::Importer::ReadFile can return: null, or a scene with or without
\* AI_SCENE_FLAGS_INCOMPLETE and with or without a root node.
Imports(trees) ==
    {[null |-> TRUE, incomplete |-> FALSE, hasRoot |-> FALSE, mRootNode |-> NoNode,
      mMeshes |-> UnreadMeshes]}
    \cup {[null |-> FALSE, incomplete |-> inc, hasRoot |-> TRUE, mRootNode |-> r,
           mMeshes |-> UnreadMeshes] : inc \in BOOLEAN, r \in trees}
    \cup {[null |-> FALSE, incomplete |-> inc, hasRoot |-> FALSE, mRootNode |-> NoNode,
           mMeshes |-> UnreadMeshes] : inc \in BOOLEAN}

\* Total number of weights, bones and faces read from the scene so far.
RECURSIVE WeightsPromised(_)
WeightsPromised(bones) ==
    IF bones = <<>> THEN 0 ELSE Head(bones).mNumWeights + WeightsPromised(Tail(bones))
ScenePromised(sc) ==
    SumSeq([k \in 1..NumMeshes |-> WeightsPromised(sc.mMeshes[k - 1].mBones)])
SceneBones(sc) == SumSeq([k \in 1..NumMeshes |-> sc.mMeshes[k - 1].mNumBones])
SceneFaces(sc) == SumSeq([k \in 1..NumMeshes |-> Len(sc.mMeshes[k - 1].mFaces)])
BoneNames(sc) ==
    UNION {{sc.mMeshes[m].mBones[k].mName : k \in 1..Len(sc.mMeshes[m].mBones)} :
             m \in 0..(NumMeshes - 1)}

----------------------------------------------------------------------------
(* Matrices and vertex attributes (opaque).                                *)

\* aiMatrix4x4 (row-major) to glm::mat4 (column-major): a transposition.
ConvertAssimpMatrixToGLM(mat) == <<<<mat[1][1], mat[2][1]>>, <<mat[1][2], mat[2][2]>>>>
\* glm::inverse
Inverse(mat) == <<"inverse", mat>>
RootTransformation == <<<<1, 0>>, <<0, 1>>>>
\* mOffsetMatrix of bone k of scene mesh m: every bone of the scene has its own.
OffsetMatrix(m, k) == <<<<1, m + 1>>, <<k + 10, 1>>>>

\* mVertices[i], mNormals[i], ... of scene mesh m.
Attr(kind, m, i) == <<kind, m, i>>
ZeroUV == <<0, 0>>

----------------------------------------------------------------------------
(* VertexBoneData and the slot policy of ProcessMesh (lines 162-203).      *)

Slots == 0..(MaxBonesPerVertex - 1)
\* memset(BoneIDs, -1, ...): every byte 0xFF, every int -1; memset(Weights, 0, ...)
EmptySlots == [BoneIDs |-> [i \in Slots |-> -1], Weights |-> [i \in Slots |-> 0]]

\* A scan that keeps the last free slot it sees (the loop without its break).
LastFreeSlot(v) ==
    LET free == {i \in Slots : v.BoneIDs[i] = -1}
    IN  IF free = {} THEN -1 ELSE CHOOSE i \in free : \A k \in free : i >= k

\* The first slot whose bone ID is -1, or -1 (foundSlot stays false).
FirstFreeSlot(v) ==
    LET free == {i \in Slots : v.BoneIDs[i] = -1}
    IN  IF free = {} THEN -1 ELSE CHOOSE i \in free : \A k \in free : i <= k

\* The comparison of the scan written with <= (the last of several lowest wins).
IsLowerOrEqual(w, lowestWeight) == w <= lowestWeight

\* boneWeights[vertexID].Weights[i] < lowestWeight
IsLower(w, lowestWeight) == w < lowestWeight
RECURSIVE LowestFrom(_, _, _, _)
LowestFrom(v, i, lowestWeight, smallestWeightIndex) ==
    IF i = MaxBonesPerVertex THEN [lowestWeight |-> lowestWeight, smallestWeightIndex |-> smallestWeightIndex]
    ELSE IF IsLower(v.Weights[i], lowestWeight)
         THEN LowestFrom(v, i + 1, v.Weights[i], i)
         ELSE LowestFrom(v, i + 1, lowestWeight, smallestWeightIndex)
\* float lowestWeight = 1.0f; int smallestWeightIndex = -1; then the scan over the slots.
LowestSlot(v) == LowestFrom(v, 0, One, -1)

\* The replacement decided without comparing the weights.
ShouldReplaceAlways(w, low) == low.smallestWeightIndex # -1

\* currentWeight > lowestWeight && smallestWeightIndex != -1
ShouldReplace(w, low) == w > low.lowestWeight /\ low.smallestWeightIndex # -1

PutSlot(v, i, id, w) ==
    [BoneIDs |-> [v.BoneIDs EXCEPT ![i] = id], Weights |-> [v.Weights EXCEPT ![i] = w]]

\* One (boneID, currentWeight) arriving at a vertex: fill the first free slot, else
\* replace the lowest weight when the new one is larger, else drop it.
AddInfluence(v, id, w) ==
    LET free == FirstFreeSlot(v)
        low  == LowestSlot(v)
    IN  IF free # -1 THEN PutSlot(v, free, id, w)
        ELSE IF ShouldReplace(w, low) THEN PutSlot(v, low.smallestWeightIndex, id, w)
        ELSE v

----------------------------------------------------------------------------
(* The bone map (lines 136-150).                                           *)

EmptyMap == [n \in {} |-> 0]
\* A registration without the find(): every bone gets a fresh ID and pose.
RegisterNameAnew(map, count, name, offset) ==
    [map |-> [n \in DOMAIN map \cup {name} |->
                IF n = name
                THEN [boneID |-> count, inverseBindPose |-> ConvertAssimpMatrixToGLM(offset)]
                ELSE map[n]],
     count |-> count + 1, boneID |-> count]

\* m_BoneDataMap.find(boneName): a new name gets boneID = m_BoneCount++ and its
\* converted offset matrix, a known one gives its stored boneID.
RegisterName(map, count, name, offset) ==
    IF name \notin DOMAIN map
    THEN [map |-> [n \in DOMAIN map \cup {name} |->
                     IF n = name
                     THEN [boneID |-> count, inverseBindPose |-> ConvertAssimpMatrixToGLM(offset)]
                     ELSE map[n]],
          count |-> count + 1, boneID |-> count]
    ELSE [map |-> map, count |-> count, boneID |-> map[name].boneID]

----------------------------------------------------------------------------
(* Input families: which scenes the importer hands over.                   *)

\* mVertexId values (unsigned words) for a mesh of n vertices.
ValidIds == [n \in 0..MaxVerts |-> 0..(n - 1)]
\* ... and with corrupt ones: one past the end, and the all-ones word.
AnyIds == [n \in 0..MaxVerts |-> 0..n \cup {Pow2(IntBits) - 1}]

\* Scenes of the walk: any tree, little bone data, vertex IDs as the importer promises,
\* triangles only.
WalkInput == [trees |-> Trees, verts |-> {MaxVerts}, uv |-> {FALSE},
              bones |-> WalkBones, perBone |-> 0..WalkWeights,
              total |-> [n \in 1..MaxVerts |-> WalkWeights],
              ids |-> ValidIds, faces |-> WalkFaces, faceSizes |-> {3}]
\* Scenes of the bone loop: one node with one mesh, much bone data (LoopWeights
\* weights on a mesh of one vertex, two fewer for every further vertex), any vertex
\* ID, and faces that are triangles or lines (aiProcess_Triangulate splits polygons
\* and leaves point and line primitives as they are).
LoopInput == [trees |-> {SingleMeshTree}, verts |-> 1..MaxVerts, uv |-> {TRUE},
              bones |-> LoopWeights, perBone |-> 1..LoopPerBone,
              total |-> [n \in 1..MaxVerts |-> LoopWeights - 2 * (n - 1)],
              ids |-> AnyIds, faces |-> LoopFaces, faceSizes |-> {2, 3}]

BoneNameList == <<"b1", "b2", "b3", "b4", "b5", "b6", "b7", "b8">>
\* Bone names are only compared for equality: a name not seen before in the scene
\* is taken to be the next of BoneNameList.
NameChoices(sc) ==
    LET seen == BoneNames(sc)
    IN  seen \cup (IF Cardinality(seen) < Len(BoneNameList)
                   THEN {BoneNameList[Cardinality(seen) + 1]} ELSE {})

\* The scene holds at most in.bones bones, in.total weights and in.faces faces.
\* Fewest weights a bone of the family reports.
MinPerBone(in) == CHOOSE x \in in.perBone : \A y \in in.perBone : x <= y
MeshHeaders(sc, m, in) ==
    IF sc.mMeshes[m].read THEN {sc.mMeshes[m]}
    ELSE UNION {{[Unread EXCEPT !.read = TRUE, !.mNumVertices = n, !.hasUV = u,
                                !.mNumBones = b] :
                   u \in in.uv,
                   b \in {x \in 0..(in.bones - SceneBones(sc)) :
                            x * MinPerBone(in) <= in.total[n] - ScenePromised(sc)}} :
                 n \in in.verts}

BoneHeaders(sc, m, k, in) ==
    LET am == sc.mMeshes[m]
    IN  IF Len(am.mBones) > k THEN {am.mBones[k + 1]}
        ELSE {[mName |-> nm, mOffsetMatrix |-> OffsetMatrix(m, k), mNumWeights |-> nw,
               mWeights |-> <<>>] :
                nm \in NameChoices(sc),
                nw \in {x \in in.perBone :
                          x + (am.mNumBones - k - 1) * MinPerBone(in)
                            <= in.total[am.mNumVertices] - ScenePromised(sc)}}

\* The weight is not looked at before the vertex ID is checked: a corrupt ID is
\* taken to come with weight 1.0.
VertexWeights(bone, k, n, in) ==
    IF Len(bone.mWeights) > k THEN {bone.mWeights[k + 1]}
    ELSE {[mVertexId |-> u, mWeight |-> w] : u \in in.ids[n] \cap ValidIds[n], w \in Weights}
         \cup {[mVertexId |-> u, mWeight |-> One] : u \in in.ids[n] \ ValidIds[n]}

\* aiFace: mNumIndices indices, each of a vertex of the mesh.  The indices are only
\* copied: face k of a mesh of n vertices is taken to be (k, k+1, ...) mod n, and
\* only the number of faces and of their indices is free.
Face(k, n, size) == [j \in 1..size |-> (k + j - 1) % n]
FaceLists(sc, m, in) ==
    LET am == sc.mMeshes[m]
    IN  IF am.facesRead THEN {am.mFaces}
        ELSE UNION {{[k \in 1..nf |-> Face(k - 1, am.mNumVertices, sizes[k])] :
                       sizes \in [1..nf -> in.faceSizes]} :
                     nf \in 0..(in.faces - SceneFaces(sc))}

----------------------------------------------------------------------------
(* Model::Model and Model::LoadModel.                                      *)

\* A Mesh handed to Model(const Mesh &) by the caller.
GivenMesh == [positions |-> <<"given">>, uvs |-> <<"given">>, normals |-> <<"given">>,
              tangents |-> <<"given">>, bitangents |-> <<"given">>,
              boneWeights |-> <<>>, indices |-> <<0, 0, 0>>]
NoImport == [null |-> TRUE, incomplete |-> FALSE, hasRoot |-> FALSE, mRootNode |-> NoNode,
             mMeshes |-> UnreadMeshes]

NoLocals ==
    /\ positions = <<>> /\ uvs = <<>> /\ normals = <<>> /\ tangents = <<>>
    /\ bitangents = <<>> /\ boneWeights = <<>>
    /\ boneIndex = 0 /\ boneID = -1 /\ weightIndex = 0 /\ vertexID = 0 /\ currentWeight = 0

\* The three constructors: m_BoneCount(0), and no mesh or the meshes given.
Init ==
    /\ status = "idle"
    /\ scene = NoImport
    /\ m_Directory = <<>> /\ m_Name = <<>>
    /\ m_Meshes \in {<<>>, <<GivenMesh>>}
    /\ m_BoneDataMap = EmptyMap
    /\ m_BoneCount = 0
    /\ m_GlobalInverseTransform = "unset"
    /\ stack = <<>>
    /\ pc = "node"
    /\ NoLocals

\* The test without the AI_SCENE_FLAGS_INCOMPLETE term.
SceneRejectedUnflagged(sc) == sc.null \/ ~sc.hasRoot

\* !scene || scene->mFlags & AI_SCENE_FLAGS_INCOMPLETE || !scene->mRootNode
SceneRejected(sc) == sc.null \/ sc.incomplete \/ ~sc.hasRoot

LoadModel(in) ==
    /\ status \in {"idle", "failed"}
    /\ \E path \in Paths, sc \in Imports(in.trees) :
        /\ scene' = sc
        /\ IF SceneRejected(sc)
           THEN /\ status' = "failed"
                /\ UNCHANGED <<modelVars, stack>>
           ELSE /\ status' = "walking"
                /\ m_Directory' = DirectoryOf(path)
                /\ m_Name' = NameOf(path)
                /\ stack' = <<[node |-> sc.mRootNode, i |-> 0, j |-> 0]>>
                /\ UNCHANGED <<m_Meshes, m_BoneDataMap, m_BoneCount, m_GlobalInverseTransform>>
    /\ UNCHANGED <<pc, attrVars, boneVars>>

----------------------------------------------------------------------------
(* Model::ProcessNode and Model::ProcessMesh.                              *)

Top == stack[Len(stack)]
\* node->mMeshes[i] of the running ProcessNode call
CurMesh == Top.node.mMeshes[Top.i + 1]
CurBone == scene.mMeshes[CurMesh].mBones[boneIndex + 1]

ResetLocals ==
    /\ positions' = <<>> /\ uvs' = <<>> /\ normals' = <<>> /\ tangents' = <<>>
    /\ bitangents' = <<>> /\ boneWeights' = <<>>
    /\ boneIndex' = 0 /\ boneID' = -1 /\ weightIndex' = 0 /\ vertexID' = 0
    /\ currentWeight' = 0

\* The resize without its mNumBones > 0 guard.
ResizedAlways(numBones, n) == [i \in 1..n |-> EmptySlots]

\* if (mesh->mNumBones > 0) boneWeights.resize(mNumVertices), each entry memset
ResizedBoneWeights(numBones, n) == IF numBones > 0 THEN [i \in 1..n |-> EmptySlots] ELSE <<>>

\* Lines 80-128: ProcessMesh is entered for the next mesh index of the node; the
\* five attribute vectors are filled and, with bones, the slots are cleared.
BeginMesh(in) ==
    /\ status = "walking" /\ pc = "node"
    /\ Top.i < Len(Top.node.mMeshes)
    /\ \E h \in MeshHeaders(scene, CurMesh, in) :
        LET n == h.mNumVertices
        IN  /\ scene' = [scene EXCEPT !.mMeshes[CurMesh] = h]
            /\ positions' = [i \in 1..n |-> Attr("v", CurMesh, i - 1)]
            /\ uvs' = [i \in 1..n |-> IF h.hasUV THEN Attr("uv", CurMesh, i - 1) ELSE ZeroUV]
            /\ normals' = [i \in 1..n |-> Attr("n", CurMesh, i - 1)]
            /\ tangents' = [i \in 1..n |-> Attr("t", CurMesh, i - 1)]
            /\ bitangents' = [i \in 1..n |-> Attr("b", CurMesh, i - 1)]
            /\ boneWeights' = ResizedBoneWeights(h.mNumBones, n)
    /\ m_GlobalInverseTransform' = Inverse(ConvertAssimpMatrixToGLM(RootTransformation))
    /\ pc' = "bones"
    /\ UNCHANGED <<status, stack, m_Directory, m_Name, m_Meshes, m_BoneDataMap, m_BoneCount,
                   boneIndex, boneID, weightIndex, vertexID, currentWeight>>

\* Lines 131-155: the next bone of the mesh is looked up in, or added to, the bone map.
RegisterBone(in) ==
    /\ status = "walking" /\ pc = "bones"
    /\ boneIndex < scene.mMeshes[CurMesh].mNumBones
    /\ \E b \in BoneHeaders(scene, CurMesh, boneIndex, in) :
        LET r == RegisterName(m_BoneDataMap, m_BoneCount, b.mName, b.mOffsetMatrix)
            am == scene.mMeshes[CurMesh]
        IN  /\ scene' = IF Len(am.mBones) > boneIndex THEN scene
                        ELSE [scene EXCEPT !.mMeshes[CurMesh].mBones = Append(@, b)]
            /\ m_BoneDataMap' = r.map
            /\ m_BoneCount' = r.count
            /\ boneID' = r.boneID
    /\ weightIndex' = 0
    /\ pc' = "weights"
    /\ UNCHANGED <<status, stack, m_Directory, m_Name, m_Meshes, m_GlobalInverseTransform,
                   attrVars, boneWeights, boneIndex, vertexID, currentWeight>>

\* ARC_ASSERT(vertexID < (int)mesh->mNumVertices, ...)
VertexAssertHolds(id, numVertices) == id < ToInt(numVertices)

\* Lines 156-204, one pass of the weight loop: the assertion, then the slot policy.
\* A negative vertexID passes the assertion and boneWeights[vertexID] is out of
\* bounds; the access either faults or lands in foreign memory.
ProcessWeight(in) ==
    /\ status = "walking" /\ pc = "weights"
    /\ weightIndex < CurBone.mNumWeights
    /\ \E vw \in VertexWeights(CurBone, weightIndex, scene.mMeshes[CurMesh].mNumVertices, in) :
        /\ scene' = IF Len(CurBone.mWeights) > weightIndex THEN scene
                    ELSE [scene EXCEPT !.mMeshes[CurMesh].mBones[boneIndex + 1].mWeights =
                                          Append(@, vw)]
        /\ vertexID' = ToInt(vw.mVertexId)
        /\ currentWeight' = vw.mWeight
        /\ IF ~VertexAssertHolds(vertexID', scene.mMeshes[CurMesh].mNumVertices)
           THEN /\ status' = "aborted"
                /\ UNCHANGED <<boneWeights, weightIndex>>
           ELSE IF vertexID' < 0
           THEN /\ status' \in {"crashed", "corrupted"}
                /\ UNCHANGED <<boneWeights, weightIndex>>
           ELSE /\ boneWeights' = [boneWeights EXCEPT ![vertexID' + 1] =
                                      AddInfluence(@, boneID, currentWeight')]
                /\ weightIndex' = weightIndex + 1
                /\ UNCHANGED status
    /\ UNCHANGED <<modelVars, stack, pc, attrVars, boneIndex, boneID>>

\* The weight loop of a bone ends; boneIndex++.
EndBone ==
    /\ status = "walking" /\ pc = "weights"
    /\ weightIndex = CurBone.mNumWeights
    /\ boneIndex' = boneIndex + 1
    /\ boneID' = -1 /\ weightIndex' = 0 /\ vertexID' = 0 /\ currentWeight' = 0
    /\ pc' = "bones"
    /\ UNCHANGED <<status, scene, modelVars, stack, attrVars, boneWeights>>

RECURSIVE BuildIndices(_)
\* Lines 209-216: every index of every face, in order.
BuildIndices(faces) ==
    IF faces = <<>> THEN <<>>
    ELSE [j \in 1..Len(Head(faces)) |-> Head(faces)[j]] \o BuildIndices(Tail(faces))

\* Mesh newMesh(std::move(positions), ..., std::move(boneWeights), std::move(indices))
NewMesh(pos, uv, nor, tan, bit, bw, ind) ==
    [positions |-> pos, uvs |-> uv, normals |-> nor, tangents |-> tan, bitangents |-> bit,
     boneWeights |-> bw, indices |-> ind]

\* Lines 207-235: the bone loop is over; indices are built and the mesh is appended.
FinishMesh(in) ==
    /\ status = "walking" /\ pc = "bones"
    /\ boneIndex = scene.mMeshes[CurMesh].mNumBones
    /\ \E faces \in FaceLists(scene, CurMesh, in) :
        /\ scene' = [scene EXCEPT !.mMeshes[CurMesh].facesRead = TRUE,
                                  !.mMeshes[CurMesh].mFaces = faces]
        /\ m_Meshes' = Append(m_Meshes,
                              NewMesh(positions, uvs, normals, tangents, bitangents,
                                      boneWeights, BuildIndices(faces)))
    /\ stack' = [stack EXCEPT ![Len(stack)].i = @ + 1]
    /\ pc' = "node"
    /\ ResetLocals
    /\ UNCHANGED <<status, m_Directory, m_Name, m_BoneDataMap, m_BoneCount,
                   m_GlobalInverseTransform>>

\* The two loops of ProcessNode interleaved: a child is entered although meshes of
\* the node are still to be processed.
DescendEarly ==
    /\ status = "walking" /\ pc = "node"
    /\ Top.j < Len(Top.node.mChildren)
    /\ stack' = Append([stack EXCEPT ![Len(stack)].j = @ + 1],
                       [node |-> Top.node.mChildren[Top.j + 1], i |-> 0, j |-> 0])
    /\ UNCHANGED <<status, scene, modelVars, pc, attrVars, boneVars>>

\* Lines 73-75: ProcessNode(node->mChildren[i], scene)
Descend ==
    /\ status = "walking" /\ pc = "node"
    /\ Top.i = Len(Top.node.mMeshes)
    /\ Top.j < Len(Top.node.mChildren)
    /\ stack' = Append([stack EXCEPT ![Len(stack)].j = @ + 1],
                       [node |-> Top.node.mChildren[Top.j + 1], i |-> 0, j |-> 0])
    /\ UNCHANGED <<status, scene, modelVars, pc, attrVars, boneVars>>

\* Both loops of a ProcessNode call are over: it returns; LoadModel returns with the root's.
Return ==
    /\ status = "walking" /\ pc = "node"
    /\ Top.i = Len(Top.node.mMeshes)
    /\ Top.j = Len(Top.node.mChildren)
    /\ stack' = SubSeq(stack, 1, Len(stack) - 1)
    /\ status' = IF Len(stack) = 1 THEN "loaded" ELSE "walking"
    /\ UNCHANGED <<scene, modelVars, pc, attrVars, boneVars>>

Next ==
    \/ LoadModel(WalkInput)
    \/ BeginMesh(WalkInput)
    \/ RegisterBone(WalkInput)
    \/ ProcessWeight(WalkInput)
    \/ EndBone
    \/ FinishMesh(WalkInput)
    \/ Descend
    \/ Return

Spec == Init /\ [][Next]_vars

\* LoadModel runs ProcessNode to its end on the calling thread: once the walk has
\* started, a step of it that can be taken is taken.
ProcessNodeStep ==
    \/ BeginMesh(WalkInput)
    \/ RegisterBone(WalkInput)
    \/ ProcessWeight(WalkInput)
    \/ EndBone
    \/ FinishMesh(WalkInput)
    \/ Descend
    \/ Return
FairSpec == Spec /\ WF_vars(ProcessNodeStep)

\* The same program on single-mesh scenes with long bone lists.
BoneNext ==
    \/ LoadModel(LoopInput)
    \/ BeginMesh(LoopInput)
    \/ RegisterBone(LoopInput)
    \/ ProcessWeight(LoopInput)
    \/ EndBone
    \/ FinishMesh(LoopInput)
    \/ Return

BoneSpec == Init /\ [][BoneNext]_vars

----------------------------------------------------------------------------
(* Views of the state the properties are written with.                     *)

\* The aiMesh ProcessMesh is working on (pc # "node").
AiMesh == scene.mMeshes[CurMesh]

\* The (node, mesh-index) occurrences of the scene, in pre-order, and the meshes
\* LoadModel has added to those the model was created with.
Occurrences == PreOrder(scene.mRootNode)
GivenCount == IF m_Meshes # <<>> /\ m_Meshes[1] = GivenMesh THEN 1 ELSE 0
Appended == SubSeq(m_Meshes, GivenCount + 1, Len(m_Meshes))

\* The influences the weight loop has assigned for the mesh in progress, in the
\* order the scene reports them: the first count weights of bone k of the mesh.
BoneInfluences(k, count) ==
    [j \in 1..count |-> [bone   |-> m_BoneDataMap[AiMesh.mBones[k].mName].boneID,
                         name   |-> AiMesh.mBones[k].mName,
                         vertex |-> ToInt(AiMesh.mBones[k].mWeights[j].mVertexId),
                         weight |-> AiMesh.mBones[k].mWeights[j].mWeight]]
RECURSIVE InfluencesOfBones(_)
InfluencesOfBones(k) ==
    IF k = 0 THEN <<>>
    ELSE InfluencesOfBones(k - 1) \o BoneInfluences(k, AiMesh.mBones[k].mNumWeights)
Assigned ==
    InfluencesOfBones(boneIndex)
      \o (IF pc = "weights" THEN BoneInfluences(boneIndex + 1, weightIndex) ELSE <<>>)
AssignedTo(v) == LET AtVertex(e) == e.vertex = v IN SelectSeq(Assigned, AtVertex)

Occupied(v) == {i \in Slots : v.BoneIDs[i] # -1}
MinWeight(v) ==
    CHOOSE w \in {v.Weights[i] : i \in Slots} : \A i \in Slots : w <= v.Weights[i]
FirstMinSlot(v) ==
    CHOOSE i \in Slots : /\ v.Weights[i] = MinWeight(v)
                         /\ \A k \in 0..(i - 1) : v.Weights[k] # MinWeight(v)

\* How often weight w is held in an occupied slot, and how often it occurs among
\* the MaxBonesPerVertex largest of the weights ws (as a multiset).
HeldCount(v, w) == Cardinality({i \in Occupied(v) : v.Weights[i] = w})
LargestCount(ws, w) ==
    LET same   == Cardinality({i \in 1..Len(ws) : ws[i] = w})
        larger == Cardinality({i \in 1..Len(ws) : ws[i] > w})
        room   == IF larger >= MaxBonesPerVertex THEN 0 ELSE MaxBonesPerVertex - larger
    IN  Min2(same, room)

----------------------------------------------------------------------------
(* Properties.                                                             *)

\* A pass of the weight loop that assigned its influence (the counter moved on).
AssignStep == pc = "weights" /\ status = "walking" /\ weightIndex' = weightIndex + 1

\* C1: an influence (boneID, weight) arriving at a vertex whose slots are all
\* occupied overwrites exactly the first slot holding the minimum weight when its
\* weight is strictly greater than that minimum, and changes no slot of the vertex
\* otherwise (a tie included); no other vertex changes.
C1_EvictsFirstLowest ==
    [][(AssignStep /\ Occupied(boneWeights[vertexID' + 1]) = Slots) =>
         LET old == boneWeights[vertexID' + 1]
             new == boneWeights'[vertexID' + 1]
             s   == FirstMinSlot(old)
         IN  /\ IF currentWeight' > MinWeight(old)
                THEN /\ new.BoneIDs = [old.BoneIDs EXCEPT ![s] = boneID]
                     /\ new.Weights = [old.Weights EXCEPT ![s] = currentWeight']
                ELSE new = old
             /\ \A x \in 1..Len(boneWeights) :
                  x # vertexID' + 1 => boneWeights'[x] = boneWeights[x]]_vars

\* A full vertex whose slots 0 and 1 both held its lowest weight has just had slot 0,
\* and not slot 1, replaced by a larger influence.
C1_Evicted ==
    /\ pc = "weights" /\ status = "walking" /\ weightIndex > 0
    /\ LET got == AssignedTo(vertexID)
           v   == boneWeights[vertexID + 1]
       IN  /\ Len(got) = MaxBonesPerVertex + 1
           /\ got[1].weight = got[2].weight
           /\ \A i \in 1..MaxBonesPerVertex : got[1].weight <= got[i].weight
           /\ got[MaxBonesPerVertex + 1].weight > got[1].weight
           /\ v.BoneIDs[0] = boneID /\ v.Weights[0] = currentWeight
           /\ v.BoneIDs[1] = got[2].bone

\* The bone map is a bijection between the names registered and 0 .. m_BoneCount - 1.
RegistryInv ==
    /\ m_BoneCount = Cardinality(DOMAIN m_BoneDataMap)
    /\ {m_BoneDataMap[n].boneID : n \in DOMAIN m_BoneDataMap} = 0..(m_BoneCount - 1)
    /\ \A a, b \in DOMAIN m_BoneDataMap :
         m_BoneDataMap[a].boneID = m_BoneDataMap[b].boneID => a = b
\* The registration of the next bone of the mesh in progress.
RegistryStep ==
    (pc = "bones" /\ pc' = "weights") =>
      LET b == scene'.mMeshes[CurMesh].mBones[boneIndex + 1]
      IN  IF b.mName \in DOMAIN m_BoneDataMap
          THEN /\ boneID' = m_BoneDataMap[b.mName].boneID
               /\ m_BoneCount' = m_BoneCount
               /\ m_BoneDataMap' = m_BoneDataMap
          ELSE /\ boneID' = Cardinality(DOMAIN m_BoneDataMap)
               /\ m_BoneCount' = m_BoneCount + 1
               /\ DOMAIN m_BoneDataMap' = DOMAIN m_BoneDataMap \cup {b.mName}
               /\ m_BoneDataMap'[b.mName].boneID = boneID'
               /\ m_BoneDataMap'[b.mName].inverseBindPose
                    = ConvertAssimpMatrixToGLM(b.mOffsetMatrix)
               /\ \A n \in DOMAIN m_BoneDataMap : m_BoneDataMap'[n] = m_BoneDataMap[n]

\* C2: over all registrations of all meshes of a model, a new name gets the number
\* of distinct names registered before it as its ID, a known name gives its ID
\* back with the counter and the stored inverse bind pose unchanged; the map from
\* names to IDs is injective and m_BoneCount is the number of distinct names.
C2_BoneRegistry == []RegistryInv /\ [][RegistryStep]_vars

\* A name registered by a bone of one scene mesh has been registered again by a bone
\* of another, with another offset matrix.
C2_KnownNameAgain ==
    /\ pc = "weights" /\ CurMesh = 1
    /\ scene.mMeshes[0].mNumBones > 0
    /\ m_BoneDataMap[CurBone.mName].inverseBindPose
         # ConvertAssimpMatrixToGLM(CurBone.mOffsetMatrix)

\* C3: a (vertexID, weight) pair whose vertexID, as a signed int, is outside
\* [0, vertexCount) stops the processing at the assertion, before any slot is
\* touched: the run never gets past the assertion with such an ID.
C3_OutOfRangeStopsAtAssertion ==
    pc = "weights" =>
      \A k \in 1..Len(AiMesh.mBones) : \A j \in 1..Len(AiMesh.mBones[k].mWeights) :
        ToInt(AiMesh.mBones[k].mWeights[j].mVertexId) \notin 0..(AiMesh.mNumVertices - 1)
          => status = "aborted"

\* The meshes added are those of a prefix of the occurrences, one each, in
\* pre-order; the mesh in progress is the next occurrence; after the walk no
\* occurrence is left.
WalkedInOrder ==
    /\ Len(Appended) <= Len(Occurrences)
    /\ \A k \in 1..Len(Appended) :
         Appended[k].positions =
           [i \in 1..scene.mMeshes[Occurrences[k]].mNumVertices |->
              Attr("v", Occurrences[k], i - 1)]
    /\ pc # "node" => /\ Len(Appended) < Len(Occurrences)
                      /\ CurMesh = Occurrences[Len(Appended) + 1]
    /\ status = "loaded" => Len(Appended) = Len(Occurrences)

\* C4: ProcessNode processes every (node, mesh-index) occurrence of the scene
\* tree exactly once, in pre-order (a node's meshes in their order before its
\* children's, children in their order); m_Meshes grows by one Mesh per occurrence
\* in that order, a shared mesh once per reference; and the walk terminates.
C4_PreOrderWalk == []WalkedInOrder /\ ((status = "walking") ~> (status = "loaded"))

\* A walk has ended on a tree with a mesh on the root, meshes below it, and one
\* scene mesh referenced more than once, after a model created with a mesh.
C4_SharedMeshWalked ==
    /\ status = "loaded" /\ GivenCount = 1
    /\ Len(Occurrences) = MaxRefs
    /\ scene.mRootNode.mMeshes # <<>> /\ scene.mRootNode.mChildren # <<>>
    /\ Len(scene.mRootNode.mMeshes) < Len(Occurrences)
    /\ \E a, b \in 1..Len(Occurrences) : a # b /\ Occurrences[a] = Occurrences[b]
    /\ \E a, b \in 1..Len(Occurrences) : Occurrences[a] # Occurrences[b]

\* C5: a LoadModel call for which the importer returns no scene, a scene flagged
\* incomplete or a scene without a root node processes no node and leaves the
\* meshes (none, for a model created empty), the bone map, the bone counter, the
\* directory and the name as they were.
C5_RejectedLoadChangesNothing ==
    [][(status \in {"idle", "failed"}
          /\ (scene'.null \/ scene'.incomplete \/ ~scene'.hasRoot))
        => /\ status' = "failed"
           /\ stack' = stack /\ pc' = pc
           /\ UNCHANGED <<m_Meshes, m_BoneDataMap, m_BoneCount, m_Directory, m_Name>>]_vars

\* An incomplete scene that has a root node has been rejected by an empty model.
C5_IncompleteRejected ==
    /\ status = "failed" /\ ~scene.null /\ scene.incomplete /\ scene.hasRoot
    /\ scene.mRootNode.mMeshes # <<>>
    /\ m_Meshes = <<>> /\ m_BoneCount = 0 /\ m_Name = <<>>

\* The number of indices of the first f faces.
IndicesBefore(faces, f) == SumSeq([k \in 1..f |-> Len(faces[k])])

\* C6: the index sequence of every mesh produced is the concatenation, in face
\* order, of the indices of the faces of its source mesh, its length is a multiple
\* of 3 and every value in it is below the vertex count.
C6_IndicesFromFaces ==
    \A k \in 1..Len(Appended) :
      LET am  == scene.mMeshes[Occurrences[k]]
          ind == Appended[k].indices
      IN  /\ Len(ind) % 3 = 0
          /\ \A i \in 1..Len(ind) : ind[i] < Len(Appended[k].positions)
          /\ Len(ind) = IndicesBefore(am.mFaces, Len(am.mFaces))
          /\ \A f \in 1..Len(am.mFaces) : \A j \in 1..Len(am.mFaces[f]) :
                ind[IndicesBefore(am.mFaces, f - 1) + j] = am.mFaces[f][j]

\* C7: the five attribute sequences of every mesh produced have the vertex count
\* of its source mesh as their length; its bone-influence sequence has that length
\* when the source mesh has a bone, and without bones it is empty and the weight
\* loop is never entered.
C7_SequenceLengths ==
    /\ \A k \in 1..Len(Appended) :
         LET am == scene.mMeshes[Occurrences[k]]
             me == Appended[k]
         IN  /\ Len(me.positions) = am.mNumVertices
             /\ Len(me.uvs) = am.mNumVertices
             /\ Len(me.normals) = am.mNumVertices
             /\ Len(me.tangents) = am.mNumVertices
             /\ Len(me.bitangents) = am.mNumVertices
             /\ Len(me.boneWeights) = IF am.mNumBones > 0 THEN am.mNumVertices ELSE 0
    /\ (pc # "node" /\ AiMesh.mNumBones = 0) => pc = "bones" /\ boneWeights = <<>>

\* The walk has produced a mesh with bones, one of whose vertices has an
\* influence, and a mesh without bones.
C7_SkinnedAndUnskinned ==
    /\ status = "loaded"
    /\ \E a, b \in 1..Len(Appended) :
         /\ Appended[a].boneWeights = <<>>
         /\ Len(Appended[b].boneWeights) = MaxVerts
         /\ \E x \in 1..MaxVerts : Occupied(Appended[b].boneWeights[x]) # {}

\* No vertex of the mesh in progress has two occupied slots with the same bone ID.
NoSharedBone ==
    \A x \in 1..Len(boneWeights) : \A i, j \in Slots :
      (i < j /\ boneWeights[x].BoneIDs[i] = boneWeights[x].BoneIDs[j])
        => boneWeights[x].BoneIDs[i] = -1

\* C8: whatever the bones of a mesh report, a vertex ID repeated by a bone and a
\* bone name repeated in the bone list included, no vertex has two occupied slots
\* with the same bone ID.
C8_NoSharedBoneID == pc # "node" => NoSharedBone

\* The slot policy applied to the weights ws arriving in this order at one vertex.
RECURSIVE Streamed(_, _)
Streamed(v, ws) ==
    IF ws = <<>> THEN v ELSE Streamed(AddInfluence(v, Len(ws), Head(ws)), Tail(ws))
LosesALargest(ws) ==
    \E w \in Weights : HeldCount(Streamed(EmptySlots, ws), w) # LargestCount(ws, w)

\* C9 as stated: for a vertex of a skinned mesh, some sequence of more than
\* MaxBonesPerVertex influences, with weights from 0.0 to 1.0, leaves its slots
\* (empty when the mesh begins) with a multiset of weights other than that of the
\* MaxBonesPerVertex largest weights reported.
C9_SomeOrderLosesALargest ==
    (pc # "node" /\ boneWeights # <<>>) =>
    \E n \in (MaxBonesPerVertex + 1)..(MaxBonesPerVertex + 2) :
      \E ws \in [1..n -> Weights] : LosesALargest(ws)

\* C9 as the code has it: after every assignment, the weights held in the occupied
\* slots of a vertex are, as a multiset, the MaxBonesPerVertex largest of the
\* weights reported for it so far.
C9_HoldsTheLargest ==
    pc # "node" =>
      LET all == Assigned
      IN  \A x \in 1..Len(boneWeights) :
            LET AtVertex(e) == e.vertex = x - 1
                got == SelectSeq(all, AtVertex)
                ws  == [i \in 1..Len(got) |-> got[i].weight]
            IN  \A w \in Weights : HeldCount(boneWeights[x], w) = LargestCount(ws, w)

\* A vertex has been given one influence more than it has slots, the first of them
\* the lowest, and that one has been evicted.
C9_LowestEvicted ==
    /\ pc # "node"
    /\ \E x \in 1..Len(boneWeights) :
         LET got == AssignedTo(x - 1)
         IN  /\ Len(got) = MaxBonesPerVertex + 1
             /\ got[1].weight < got[2].weight
             /\ got[MaxBonesPerVertex + 1].weight > got[1].weight
             /\ MinWeight(boneWeights[x]) > got[1].weight

\* C10: while influences are assigned to a skinned mesh, the unused slots of a
\* vertex hold bone ID -1 and weight 0, the occupied slots are the first
\* min(MaxBonesPerVertex, influences assigned to the vertex) slots, and as long as
\* no more than MaxBonesPerVertex have arrived slot k-1 holds the k-th of them.
C10_SlotsFillInOrder ==
    pc # "node" =>
      \A x \in 1..Len(boneWeights) :
        LET v   == boneWeights[x]
            got == AssignedTo(x - 1)
            k   == Min2(MaxBonesPerVertex, Len(got))
        IN  /\ Occupied(v) = 0..(k - 1)
            /\ \A i \in Slots \ Occupied(v) : v.BoneIDs[i] = -1 /\ v.Weights[i] = 0
            /\ Len(got) <= MaxBonesPerVertex =>
                 \A i \in 0..(k - 1) : /\ v.BoneIDs[i] = got[i + 1].bone
                                       /\ v.Weights[i] = got[i + 1].weight

\* A mesh of two vertices: one has two of its slots filled, the other none yet.
C10_PartlyFilled ==
    /\ pc = "weights" /\ Len(boneWeights) = 2
    /\ \E x, y \in 1..2 :
         /\ Occupied(boneWeights[x]) = {0, 1}
         /\ Occupied(boneWeights[y]) = {}
         /\ boneWeights[x].BoneIDs[0] # boneWeights[x].BoneIDs[1]

====
